---- MODULE Spec2Model ----
(***************************************************************************)
(* A model of dump.cpp: a command-line tool that walks a directory tree,   *)
(* skips ignored and binary files and writes the remaining text files to   *)
(* standard output as <file path="..."> blocks.                            *)
(*                                                                         *)
(* C++ strings are sequences of bytes (0..255).  'a' is 97, 'A' is 65,     *)
(* '/' is 47, '*' is 42, '?' is 63, '#' is 35, '-' is 45, '\n' is 10.      *)
(***************************************************************************)
EXTENDS Integers, Sequences, FiniteSets, TLC

VARIABLES
    pc,              \* position of main / dumpDirectory
    args,            \* argv[1..argc-1]
    i,               \* main's loop index into argv
    targetDir,       \* main's targetDir (a path)
    ignorePatterns,  \* main's ignorePatterns vector
    exitCode,        \* process exit code, -1 while running
    out,             \* bytes written to std::cout
    err,             \* bytes written to std::cerr
    files,           \* the file system: file node -> [present, opens, content]
    opened,          \* how many times each file node was opened so far
    stack,           \* recursive_directory_iterator: per open directory, entries left
    cur,             \* the entry the range-for loop is looking at
    pending,         \* recursive_directory_iterator::recursion_pending()
    relPath,         \* dumpDirectory's relPath
    content,         \* dumpDirectory's content buffer
    log,             \* history of the observable operations performed
    argvRead,        \* the indices of argv the program has read
    call,            \* arguments of a direct call of one of the pure functions
    ret              \* its return value

vars == <<pc, args, i, targetDir, ignorePatterns, exitCode, out, err, files,
          opened, stack, cur, pending, relPath, content, log, argvRead, call, ret>>

mainVars == <<args, i, targetDir, ignorePatterns, exitCode, err>>
walkVars == <<stack, cur, pending, relPath, content>>
callVars == <<call, ret>>

-----------------------------------------------------------------------------
(* Characters the code names.                                              *)

STAR == 42
QMARK == 63
SLASH == 47
HASH == 35
NEWLINE == 10
CHUNK_SIZE == 1024

(* Bounds of the model.                                                    *)

MaxStrLen == 3
MaxPatLen == 3
MaxPatterns == 2
MaxTail == 2
MaxGitignoreLen == 5
MaxArgs == 3

Strings(alphabet, n) == UNION {[1..k -> alphabet] : k \in 0..n}

Min(a, b) == IF a < b THEN a ELSE b

-----------------------------------------------------------------------------
(* wildcardMatch                                                           *)

\* A '*' that cannot consume a character: dp[i][j] = dp[i][j-1] || dp[i-1][j-1].
dpCell_starOne(p, c, left, up, diag) ==
    IF p = STAR THEN left \/ diag
    ELSE IF p = QMARK \/ p = c THEN diag
    ELSE FALSE

\* One cell of the table for i >= 1, j >= 1: p = pattern[j-1], c = str[i-1],
\* left = dp[i][j-1], up = dp[i-1][j], diag = dp[i-1][j-1].
dpCell(p, c, left, up, diag) ==
    IF p = STAR THEN left \/ up
    ELSE IF p = QMARK \/ p = c THEN diag
    ELSE FALSE

wildcardMatch(str, pattern) ==
    IF pattern = <<>> THEN str = <<>>
    ELSE
      LET n == Len(str)
          m == Len(pattern)
          dp[a \in 0..n, b \in 0..m] ==
              IF a = 0
              THEN IF b = 0 THEN TRUE
                   ELSE IF pattern[b] = STAR THEN dp[0, b - 1] ELSE FALSE
              ELSE IF b = 0 THEN FALSE
              ELSE dpCell(pattern[b], str[a], dp[a, b - 1], dp[a - 1, b], dp[a - 1, b - 1])
      IN dp[n, m]

-----------------------------------------------------------------------------
(* matchesAnyPattern                                                       *)

RECURSIVE matchesFrom(_, _, _)
matchesFrom(filename, patterns, k) ==
    IF k > Len(patterns) THEN FALSE
    ELSE IF wildcardMatch(filename, patterns[k]) THEN TRUE
    ELSE matchesFrom(filename, patterns, k + 1)

\* Looks at the first pattern only.
matchesAnyPattern_firstOnly(filename, patterns) ==
    patterns # <<>> /\ wildcardMatch(filename, patterns[1])

matchesAnyPattern(filename, patterns) == matchesFrom(filename, patterns, 1)

-----------------------------------------------------------------------------
(* isTextFile                                                              *)

\* char buffer[]: a byte as the (signed) char the buffer holds.
ToChar(b) == IF b >= 128 THEN b - 256 ELSE b

\* static_cast<unsigned char>
ToUnsignedChar(c) == c % 256

\* The test without the cast: a high byte is a negative char, below 9.
suspicious_signed(ch) ==
    ch = 0 \/ ch < 9 \/ (ch > 13 /\ ch < 32)

\* The loop body's two tests on one buffer element.
suspicious(ch) ==
    LET c == ToUnsignedChar(ch)
    IN c = 0 \/ c < 9 \/ (c > 13 /\ c < 32)

\* for (i = 0; i < bytesRead; ++i) with its early returns: true when the loop
\* runs to its end, that is when no element read is suspicious.
scanBuffer(buffer, bytesRead) ==
    \A k \in 0..(bytesRead - 1) : ~suspicious(buffer[k + 1])

\* fin.read(buffer, CHUNK_SIZE): the bytes read, as chars.
readChunk(data) ==
    [k \in 1..Min(Len(data), CHUNK_SIZE) |-> ToChar(data[k])]

\* isOpen: whether the ifstream opened; data: the bytes of the file.
isTextFile(isOpen, data) ==
    IF ~isOpen THEN FALSE
    ELSE LET buffer == readChunk(data)
         IN scanBuffer(buffer, Len(buffer))

-----------------------------------------------------------------------------
(* String literals of the program, as bytes.                               *)

\* "<file path=\""
OPEN_TAG ==
    <<60, 102, 105, 108, 101, 32, 112, 97, 116, 104, 61, 34>>

\* "\">\n"
OPEN_TAG_END ==
    <<34, 62, 10>>

\* "</file>\n\n"
CLOSE_TAG ==
    <<60, 47, 102, 105, 108, 101, 62, 10, 10>>

\* "Usage: "
USAGE_HEAD ==
    <<85, 115, 97, 103, 101, 58, 32>>

\* " [OPTIONS]\n ... (e.g. -i *.sh)\n" and the std::endl
USAGE_TAIL ==
    <<32, 91, 79, 80, 84, 73, 79, 78, 83, 93, 10, 82, 101, 99, 117, 114,
      115, 105, 118, 101, 108, 121, 32, 100, 117, 109, 112, 32, 116, 101,
      120, 116, 32, 102, 105, 108, 101, 115, 32, 116, 111, 32, 115, 116,
      100, 111, 117, 116, 44, 32, 114, 101, 115, 112, 101, 99, 116, 105,
      110, 103, 32, 46, 103, 105, 116, 105, 103, 110, 111, 114, 101, 32,
      97, 110, 100, 32, 99, 117, 115, 116, 111, 109, 32, 105, 103, 110,
      111, 114, 101, 32, 112, 97, 116, 116, 101, 114, 110, 115, 46, 10, 10,
      79, 112, 116, 105, 111, 110, 115, 58, 10, 32, 32, 45, 104, 44, 32,
      45, 45, 104, 101, 108, 112, 32, 32, 32, 32, 32, 32, 32, 32, 32, 32,
      32, 32, 83, 104, 111, 119, 32, 116, 104, 105, 115, 32, 104, 101, 108,
      112, 32, 109, 101, 115, 115, 97, 103, 101, 46, 10, 32, 32, 45, 100,
      44, 32, 45, 45, 100, 105, 114, 32, 60, 80, 65, 84, 72, 62, 32, 32,
      32, 32, 32, 32, 68, 105, 114, 101, 99, 116, 111, 114, 121, 32, 116,
      111, 32, 114, 117, 110, 32, 105, 110, 32, 40, 100, 101, 102, 97, 117,
      108, 116, 58, 32, 99, 117, 114, 114, 101, 110, 116, 32, 119, 111,
      114, 107, 105, 110, 103, 32, 100, 105, 114, 101, 99, 116, 111, 114,
      121, 41, 46, 10, 32, 32, 45, 105, 44, 32, 45, 45, 105, 103, 110, 111,
      114, 101, 32, 60, 80, 65, 84, 84, 69, 82, 78, 62, 32, 65, 100, 100,
      32, 112, 97, 116, 116, 101, 114, 110, 32, 116, 111, 32, 105, 103,
      110, 111, 114, 101, 32, 40, 101, 46, 103, 46, 32, 45, 105, 32, 42,
      46, 115, 104, 41, 10, 10>>

\* "Unrecognized option: "
UNRECOGNIZED ==
    <<85, 110, 114, 101, 99, 111, 103, 110, 105, 122, 101, 100, 32, 111,
      112, 116, 105, 111, 110, 58, 32>>

\* "Directory "
DIRECTORY_HEAD ==
    <<68, 105, 114, 101, 99, 116, 111, 114, 121, 32>>

\* " does not exist or is not a directory.\n"
DIRECTORY_TAIL ==
    <<32, 100, 111, 101, 115, 32, 110, 111, 116, 32, 101, 120, 105, 115,
      116, 32, 111, 114, 32, 105, 115, 32, 110, 111, 116, 32, 97, 32, 100,
      105, 114, 101, 99, 116, 111, 114, 121, 46, 10>>

\* ".gitignore"
GITIGNORE ==
    <<46, 103, 105, 116, 105, 103, 110, 111, 114, 101>>

\* The flags: "-h", "--help", "-d", "--dir", "-i", "--ignore".
OPT_H == <<45, 104>>
OPT_HELP == <<45, 45, 104, 101, 108, 112>>
OPT_D == <<45, 100>>
OPT_DIR == <<45, 45, 100, 105, 114>>
OPT_I == <<45, 105>>
OPT_IGNORE == <<45, 45, 105, 103, 110, 111, 114, 101>>

\* argv[0]: "dump"
PROG == <<100, 117, 109, 112>>

\* printUsage writes this to std::cout.
Usage(programName) == USAGE_HEAD \o programName \o USAGE_TAIL

\* operator<< of a path writes it quoted (no path here holds a quote or a
\* backslash to escape).
Quoted(path) == <<34>> \o path \o <<34>>

-----------------------------------------------------------------------------
(* The file system the program runs on: the current working directory      *)
(* "root" and what may lie below it.                                       *)
(*     .gitignore   a   d/   d/a   d/e/   d/e/b                            *)

Dirs == {"root", "d", "d/e"}
FileNodes == {".gitignore", "a", "d/a", "d/e/b"}
Nodes == Dirs \cup FileNodes
NoNode == "none"

Parent(n) ==
    CASE n = "d/a" -> "d"
      [] n = "d/e" -> "d"
      [] n = "d/e/b" -> "d/e"
      [] OTHER -> "root"

\* entry.path().filename().string()
Name(n) ==
    CASE n = ".gitignore" -> GITIGNORE
      [] n = "a" -> <<97>>
      [] n = "d" -> <<100>>
      [] n = "d/a" -> <<97>>
      [] n = "d/e" -> <<101>>
      [] n = "d/e/b" -> <<98>>
      [] OTHER -> <<>>

Exists(n) == n \in Dirs \/ (n \in FileNodes /\ files[n].present)

\* What a directory iterator opened on dir enumerates.
Children(dir) == {n \in Nodes \ {"root"} : Parent(n) = dir /\ Exists(n)}

RECURSIVE Below(_, _)
\* n lies strictly below directory dir.
Below(n, dir) ==
    IF n = "root" \/ n = NoNode THEN FALSE
    ELSE Parent(n) = dir \/ Below(Parent(n), dir)

RECURSIVE Rel(_, _)
\* fs::relative(entry.path(), directory).string(), for an entry below directory
Rel(n, dir) ==
    IF Parent(n) = dir THEN Name(n)
    ELSE Rel(Parent(n), dir) \o <<SLASH>> \o Name(n)

\* fs::current_path()
CwdPath == <<47, 119>>

\* The node a path names: the working directory itself, or a node below it by
\* its path relative to the working directory.
Resolve(path) ==
    IF path = CwdPath THEN "root"
    ELSE LET hit == {n \in Nodes \ {"root"} : Exists(n) /\ Rel(n, "root") = path}
         IN IF hit = {} THEN NoNode ELSE CHOOSE n \in hit : TRUE

\* The test without is_directory.
BadRoot_existsOnly(path) == Resolve(path) = NoNode

\* !fs::exists(targetDir) || !fs::is_directory(targetDir)
BadRoot(path) == Resolve(path) = NoNode \/ Resolve(path) \notin Dirs

\* directory / ".gitignore"
GitignoreOf(dir) ==
    LET hit == {n \in FileNodes : Parent(n) = dir /\ Name(n) = GITIGNORE}
    IN IF hit = {} THEN NoNode ELSE CHOOSE n \in hit : TRUE

\* An ifstream on file node f opens: the file is there and still lets itself
\* be opened (files[f].opens is the number of opens that succeed).
CanOpen(f) == f \in FileNodes /\ files[f].present /\ opened[f] < files[f].opens

Ev(op, node) == [op |-> op, node |-> node]

-----------------------------------------------------------------------------
(* loadGitignorePatterns                                                   *)

\* The loop body with the strip made before the comment/empty test.
addLine_stripFirst(line, patterns) ==
    LET l == IF line # <<>> /\ line[1] = SLASH THEN Tail(line) ELSE line
    IN IF l = <<>> \/ l[1] = HASH THEN patterns ELSE Append(patterns, l)

\* The body of the while loop for one line.
addLine(line, patterns) ==
    IF line = <<>> \/ line[1] = HASH THEN patterns
    ELSE IF line # <<>> /\ line[1] = SLASH THEN Append(patterns, Tail(line))
    ELSE Append(patterns, line)

RECURSIVE readLines(_, _, _, _)
\* while (std::getline(file, line)) { body }: k is the read position, line the
\* characters extracted so far.  At the end of the file getline succeeds only
\* when it extracted at least one character.
readLines(data, k, line, patterns) ==
    IF k > Len(data)
    THEN IF line = <<>> THEN patterns ELSE addLine(line, patterns)
    ELSE IF data[k] = NEWLINE
    THEN readLines(data, k + 1, <<>>, addLine(line, patterns))
    ELSE readLines(data, k + 1, Append(line, data[k]), patterns)

loadGitignorePatterns(isThere, isOpen, data, patterns) ==
    IF ~isThere THEN patterns
    ELSE IF ~isOpen THEN patterns
    ELSE readLines(data, 1, <<>>, patterns)

-----------------------------------------------------------------------------
(* main                                                                    *)

\* argv[k]; argv[argc] is the null pointer that ends the array.
Argv(k) == IF k = 0 THEN PROG ELSE IF k \in 1..Len(args) THEN args[k] ELSE <<>>

argc == Len(args) + 1

\* The bound test dropped.
HasValue_unchecked(idx) == TRUE

\* i + 1 < argc
HasValue(idx) == idx + 1 < argc

\* Only the short form is recognised.
IsHelp_shortOnly(arg) == arg = OPT_H

\* arg == "-h" || arg == "--help"
IsHelp(arg) == arg = OPT_H \/ arg = OPT_HELP

\* One iteration of the parsing loop, for (int i = 1; i < argc; ++i).
ParseArg ==
    /\ pc = "parse"
    /\ i < argc
    /\ LET arg == Argv(i)
       IN IF IsHelp(arg)
          THEN /\ out' = out \o Usage(Argv(0))
               /\ argvRead' = argvRead \cup {i, 0}
               /\ exitCode' = 0
               /\ pc' = "exit"
               /\ UNCHANGED <<i, targetDir, ignorePatterns, err>>
          ELSE IF (arg = OPT_D \/ arg = OPT_DIR) /\ HasValue(i)
          THEN /\ targetDir' = Argv(i + 1)
               /\ argvRead' = argvRead \cup {i, i + 1}
               /\ i' = i + 2
               /\ UNCHANGED <<pc, ignorePatterns, exitCode, out, err>>
          ELSE IF (arg = OPT_I \/ arg = OPT_IGNORE) /\ HasValue(i)
          THEN /\ ignorePatterns' = Append(ignorePatterns, Argv(i + 1))
               /\ argvRead' = argvRead \cup {i, i + 1}
               /\ i' = i + 2
               /\ UNCHANGED <<pc, targetDir, exitCode, out, err>>
          ELSE /\ err' = err \o UNRECOGNIZED \o arg \o <<NEWLINE>>
               /\ out' = out \o Usage(Argv(0))
               /\ argvRead' = argvRead \cup {i, 0}
               /\ exitCode' = 1
               /\ pc' = "exit"
               /\ UNCHANGED <<i, targetDir, ignorePatterns>>
    /\ UNCHANGED <<args, files, opened, log, walkVars, callVars>>

\* The loop is over: "Ensure directory exists".
CheckRoot ==
    /\ pc = "parse"
    /\ ~(i < argc)
    /\ log' = Append(log, Ev("stat", Resolve(targetDir)))
    /\ IF BadRoot(targetDir)
       THEN /\ err' = err \o DIRECTORY_HEAD \o Quoted(targetDir) \o DIRECTORY_TAIL
            /\ exitCode' = 1
            /\ pc' = "exit"
       ELSE /\ pc' = "load"
            /\ UNCHANGED <<err, exitCode>>
    /\ UNCHANGED <<args, i, targetDir, ignorePatterns, out, files, opened,
                   argvRead, walkVars, callVars>>

\* loadGitignorePatterns(targetDir, ignorePatterns)
LoadGitignore ==
    /\ pc = "load"
    /\ LET g == GitignoreOf(Resolve(targetDir))
           isThere == g # NoNode /\ Exists(g)
           isOpen == isThere /\ CanOpen(g)
           data == IF isOpen THEN files[g].content ELSE <<>>
       IN /\ ignorePatterns' = loadGitignorePatterns(isThere, isOpen, data, ignorePatterns)
          /\ opened' = IF isThere THEN [opened EXCEPT ![g] = @ + 1] ELSE opened
          /\ log' = log \o <<Ev("exists", ".gitignore")>>
                        \o (IF isOpen THEN <<Ev("load", g)>> ELSE <<>>)
    /\ pc' = "dump"
    /\ UNCHANGED <<args, i, targetDir, exitCode, out, err, files, argvRead,
                   walkVars, callVars>>

-----------------------------------------------------------------------------
(* dumpDirectory                                                           *)

\* The directory dumpDirectory was called on.
Root == Resolve(targetDir)

\* The directory test made on the path relative to the scan root.
DirTestString_relative(entry) == Rel(entry, Root)

\* std::string dirName = entry.path().filename().string()
DirTestString(entry) == Name(entry)

\* The file test made on the relative path alone.
FileIgnored_relOnly(rel, name, patterns) == matchesAnyPattern(rel, patterns)

\* matchesAnyPattern(relPath, patterns) || matchesAnyPattern(filename, patterns)
FileIgnored(rel, name, patterns) ==
    matchesAnyPattern(rel, patterns) \/ matchesAnyPattern(name, patterns)

\* The content written without the newline after it.
ContentLine_noNewline(text) == text

\* std::cout << content << "\n"
ContentLine(text) == text \o <<NEWLINE>>

RECURSIVE PopEmpty(_)
\* The iterator leaves every directory it has exhausted.
PopEmpty(s) ==
    IF s # <<>> /\ s[Len(s)] = {} THEN PopEmpty(SubSeq(s, 1, Len(s) - 1)) ELSE s

\* The iterator's increment: first into the current entry when it is a directory
\* and recursion is pending, then out of the exhausted directories.
Advanced ==
    PopEmpty(IF cur \in Dirs /\ pending THEN Append(stack, Children(cur)) ELSE stack)

\* fs::recursive_directory_iterator(directory)
DumpBegin ==
    /\ pc = "dump"
    /\ stack' = <<Children(Root)>>
    /\ cur' = NoNode
    /\ pending' = FALSE
    /\ pc' = "iter"
    /\ UNCHANGED <<mainVars, out, files, opened, relPath, content, log, argvRead, callVars>>

\* The loop moves to the next entry, in the order the file system yields.
IterNext(e) ==
    /\ pc = "iter"
    /\ Advanced # <<>>
    /\ e \in Advanced[Len(Advanced)]
    /\ stack' = [Advanced EXCEPT ![Len(Advanced)] = @ \ {e}]
    /\ cur' = e
    /\ pending' = TRUE
    /\ log' = Append(log, Ev("enum", e))
    /\ pc' = "body"
    /\ UNCHANGED <<mainVars, out, files, opened, relPath, content, argvRead, callVars>>

\* The iterator is at its end: dumpDirectory returns and main returns 0.
IterEnd ==
    /\ pc = "iter"
    /\ Advanced = <<>>
    /\ stack' = <<>>
    /\ cur' = NoNode
    /\ exitCode' = 0
    /\ pc' = "exit"
    /\ UNCHANGED <<args, i, targetDir, ignorePatterns, out, err, files, opened,
                   pending, relPath, content, log, argvRead, callVars>>

\* The loop body for a directory entry.  disable_recursion_pending is a member
\* of the iterator, and the source calls it on the entry: it has the meaning of
\* the iterator's member here, the iterator not descending into the entry.
VisitDirectory ==
    /\ pc = "body"
    /\ cur \in Dirs
    /\ log' = Append(log, Ev("testname", cur))
    /\ pending' = IF matchesAnyPattern(DirTestString(cur), ignorePatterns)
                  THEN FALSE ELSE pending
    /\ pc' = "iter"
    /\ UNCHANGED <<mainVars, out, files, opened, stack, cur, relPath, content,
                   argvRead, callVars>>

\* The loop body for a file entry, up to the first write.
VisitFile ==
    /\ pc = "body"
    /\ cur \in FileNodes
    /\ LET rel == Rel(cur, Root)
           relHit == matchesAnyPattern(rel, ignorePatterns)
           ignored == FileIgnored(rel, Name(cur), ignorePatterns)
           text == isTextFile(CanOpen(cur), files[cur].content)
           canRead == files[cur].present /\ opened[cur] + 1 < files[cur].opens
       IN /\ relPath' = rel
          /\ log' = log \o <<Ev("testrel", cur)>>
                        \o (IF relHit THEN <<>> ELSE <<Ev("testname", cur)>>)
                        \o (IF ignored THEN <<>> ELSE <<Ev("classify", cur)>>)
                        \o (IF ignored \/ ~text THEN <<>> ELSE <<Ev("open", cur)>>)
                        \o (IF ignored \/ ~text \/ ~canRead THEN <<>> ELSE <<Ev("read", cur)>>)
          /\ opened' = IF ignored THEN opened
                       ELSE IF ~text THEN [opened EXCEPT ![cur] = @ + 1]
                       ELSE [opened EXCEPT ![cur] = @ + 2]
          /\ IF ignored \/ ~text \/ ~canRead
             THEN pc' = "iter" /\ UNCHANGED content
             ELSE pc' = "emit_open" /\ content' = files[cur].content
    /\ UNCHANGED <<mainVars, out, files, stack, cur, pending, argvRead, callVars>>

\* std::cout << "<file path=\"" << relPath << "\">\n"
WriteOpenTag ==
    /\ pc = "emit_open"
    /\ out' = out \o OPEN_TAG \o relPath \o OPEN_TAG_END
    /\ log' = Append(log, Ev("write_open", cur))
    /\ pc' = "emit_content"
    /\ UNCHANGED <<mainVars, files, opened, walkVars, argvRead, callVars>>

\* std::cout << content << "\n"
WriteContent ==
    /\ pc = "emit_content"
    /\ out' = out \o ContentLine(content)
    /\ log' = Append(log, Ev("write_content", cur))
    /\ pc' = "emit_close"
    /\ UNCHANGED <<mainVars, files, opened, walkVars, argvRead, callVars>>

\* std::cout << "</file>\n\n"
WriteCloseTag ==
    /\ pc = "emit_close"
    /\ out' = out \o CLOSE_TAG
    /\ log' = Append(log, Ev("write_close", cur))
    /\ pc' = "iter"
    /\ UNCHANGED <<mainVars, files, opened, walkVars, argvRead, callVars>>

Walk ==
    \/ DumpBegin
    \/ \E e \in Nodes : IterNext(e)
    \/ IterEnd
    \/ VisitDirectory
    \/ VisitFile
    \/ WriteOpenTag
    \/ WriteContent
    \/ WriteCloseTag

-----------------------------------------------------------------------------
(* Direct calls of the pure functions.                                     *)

Idle == [fn |-> "none"]
NoRet == [done |-> FALSE, value |-> FALSE]
Returned(v) == [done |-> TRUE, value |-> v]

CallWildcardMatch ==
    /\ pc = "call"
    /\ call.fn = "wildcardMatch"
    /\ ret' = Returned(wildcardMatch(call.str, call.pattern))
    /\ pc' = "returned"
    /\ UNCHANGED <<mainVars, out, files, opened, walkVars, log, argvRead, call>>

CallMatchesAnyPattern ==
    /\ pc = "call"
    /\ call.fn = "matchesAnyPattern"
    /\ ret' = Returned(matchesAnyPattern(call.filename, call.patterns))
    /\ pc' = "returned"
    /\ UNCHANGED <<mainVars, out, files, opened, walkVars, log, argvRead, call>>

CallIsTextFile ==
    /\ pc = "call"
    /\ call.fn = "isTextFile"
    /\ ret' = Returned(isTextFile(call.isOpen, call.data))
    /\ pc' = "returned"
    /\ UNCHANGED <<mainVars, out, files, opened, walkVars, log, argvRead, call>>

-----------------------------------------------------------------------------
(* Inputs.                                                                 *)

\* 'a', '/', '*', '?'
Alphabet == {97, 47, 42, 63}

Lists(S, n) == UNION {[1..k -> S] : k \in 0..n}

\* Patterns for pattern lists: "", "*", "?", "a", "a*", "/a".
ListPatterns == {<<>>, <<42>>, <<63>>, <<97>>, <<97, 42>>, <<47, 97>>}

\* Bytes around every boundary of the classifier's tests.
ByteSamples == {0, 8, 9, 13, 14, 31, 32, 255}

\* File lengths around the chunk size: the tail follows Pad(n).
PadLengths == {0, CHUNK_SIZE - MaxTail, CHUNK_SIZE - 1, CHUNK_SIZE}
Pad(n) == [k \in 1..n |-> 97]

\* A file, by what an open gives and what it holds.
File(n, c) == [present |-> TRUE, opens |-> n, content |-> c]
Absent == [present |-> FALSE, opens |-> 0, content |-> <<>>]

\* "hi\n", the bytes 0 1, and an empty file
TextFile == File(3, <<104, 105, 10>>)
BinaryFile == File(3, <<0, 1>>)
EmptyFile == File(3, <<>>)
\* a file no open succeeds on, and one that opens once only
LockedFile == File(0, <<104, 105, 10>>)
VanishingFile == File(1, <<104>>)

Started ==
    /\ i = 1
    /\ targetDir = CwdPath
    /\ exitCode = -1
    /\ out = <<>>
    /\ err = <<>>
    /\ opened = [f \in FileNodes |-> 0]
    /\ stack = <<>>
    /\ cur = NoNode
    /\ pending = FALSE
    /\ relPath = <<>>
    /\ content = <<>>
    /\ log = <<>>
    /\ argvRead = {}

\* The whole program on every short command line.
\* Arguments: the six flags, "d" (a directory) and "a" (a file).
Tokens == {OPT_H, OPT_HELP, OPT_D, OPT_DIR, OPT_I, OPT_IGNORE, <<100>>, <<97>>}

\* Longer command lines: -d d -d a, -d a --dir d, -d -i --help a,
\* --ignore d/* -i a, -i a -d d -i.
LongArgs ==
    {<<OPT_D, <<100>>, OPT_D, <<97>>>>,
     <<OPT_D, <<97>>, OPT_DIR, <<100>>>>,
     <<OPT_D, OPT_I, OPT_HELP, <<97>>>>,
     <<OPT_IGNORE, <<100, 47, 42>>, OPT_I, <<97>>>>,
     <<OPT_I, <<97>>, OPT_D, <<100>>, OPT_I>>}

Init ==
    /\ pc = "parse"
    /\ args \in Lists(Tokens, MaxArgs) \cup LongArgs
    /\ ignorePatterns = <<>>
    /\ files \in {[f \in FileNodes |->
                     CASE f = ".gitignore" -> g
                       [] f = "d/e/b" -> BinaryFile
                       [] OTHER -> TextFile] :
                  g \in {Absent, File(3, <<47, 100, 47, 42, 10>>)}}
    /\ Started
    /\ call = Idle
    /\ ret = NoRet

Next == ParseArg \/ CheckRoot \/ LoadGitignore \/ Walk

Spec == Init /\ [][Next]_vars

\* The program runs to its end: nothing in it waits.
FairSpec == Spec /\ WF_vars(Next)

\* dumpDirectory on every small tree and pattern list.
\* Patterns: "a", "d", "e", "d/e", "d/*".
WalkPatterns == {<<97>>, <<100>>, <<101>>, <<100, 47, 101>>, <<100, 47, 42>>}

InitWalk ==
    /\ pc = "dump"
    /\ args = <<>>
    /\ ignorePatterns \in Lists(WalkPatterns, MaxPatterns)
    /\ files \in {[f \in FileNodes |->
                     CASE f = ".gitignore" -> Absent
                       [] f = "a" -> fa
                       [] f = "d/a" -> fda
                       [] OTHER -> fb] :
                  fa \in {TextFile, EmptyFile, BinaryFile},
                  fda \in {TextFile, BinaryFile, LockedFile, VanishingFile},
                  fb \in {TextFile, VanishingFile, Absent}}
    /\ Started
    /\ call = Idle
    /\ ret = NoRet

SpecWalk == InitWalk /\ [][Walk]_vars

\* main up to the call of dumpDirectory, on every short .gitignore.
\* Command lines: none, -i a, -i a --ignore *, --ignore /a -i a.
IgnoreArgs ==
    {<<>>, <<OPT_I, <<97>>>>, <<OPT_I, <<97>>, OPT_IGNORE, <<42>>>>,
     <<OPT_IGNORE, <<47, 97>>, OPT_I, <<97>>>>}

\* 'a', ' ', '#', '/', '\n'
GitignoreAlphabet == {97, 32, HASH, SLASH, NEWLINE}

InitIgnore ==
    /\ pc = "parse"
    /\ args \in IgnoreArgs
    /\ ignorePatterns = <<>>
    /\ files \in {[f \in FileNodes |-> IF f = ".gitignore" THEN g ELSE TextFile] :
                  g \in {Absent, File(0, <<97, 10>>)}
                        \cup {File(3, c) : c \in Strings(GitignoreAlphabet, MaxGitignoreLen)}}
    /\ Started
    /\ call = Idle
    /\ ret = NoRet

NextIgnore == ParseArg \/ CheckRoot \/ LoadGitignore

SpecIgnore == InitIgnore /\ [][NextIgnore]_vars

\* The matcher on every short text and pattern.
InitMatch ==
    /\ pc = "call"
    /\ call \in {[fn |-> "wildcardMatch", str |-> s, pattern |-> p] :
                    s \in Strings(Alphabet, MaxStrLen), p \in Strings(Alphabet, MaxPatLen)}
                \cup {[fn |-> "wildcardMatch", str |-> s, pattern |-> p] :
                    s \in Strings({97, 65}, 2), p \in Strings({97, 65}, 2)}
                \cup {[fn |-> "matchesAnyPattern", filename |-> s, patterns |-> ps] :
                    s \in Strings({97, 47}, 2), ps \in Lists(ListPatterns, MaxPatterns)}
    /\ ret = NoRet
    /\ args = <<>>
    /\ ignorePatterns = <<>>
    /\ files = [f \in FileNodes |-> Absent]
    /\ Started

NextMatch == CallWildcardMatch \/ CallMatchesAnyPattern

SpecMatch == InitMatch /\ [][NextMatch]_vars

\* The classifier on files around the chunk size and on every one-byte file.
InitText ==
    /\ pc = "call"
    /\ call \in {[fn |-> "isTextFile", isOpen |-> o, data |-> Pad(n) \o t] :
                    o \in BOOLEAN, n \in PadLengths, t \in Strings(ByteSamples, MaxTail)}
                \cup {[fn |-> "isTextFile", isOpen |-> TRUE, data |-> <<b>>] : b \in 0..255}
    /\ ret = NoRet
    /\ args = <<>>
    /\ ignorePatterns = <<>>
    /\ files = [f \in FileNodes |-> Absent]
    /\ Started

NextText == CallIsTextFile

SpecText == InitText /\ [][NextText]_vars

-----------------------------------------------------------------------------
(* Properties of the matcher.                                              *)

RECURSIVE RefMatch(_, _)
\* The reference semantics: the whole text is split along the pattern, '*'
\* taking any number of characters, '?' one, any other character itself.
RefMatch(text, pattern) ==
    IF pattern = <<>> THEN text = <<>>
    ELSE IF Head(pattern) = 42
    THEN \E k \in 0..Len(text) :
            RefMatch(SubSeq(text, k + 1, Len(text)), Tail(pattern))
    ELSE /\ text # <<>>
         /\ Head(pattern) = 63 \/ Head(pattern) = Head(text)
         /\ RefMatch(Tail(text), Tail(pattern))

OnlyStars(pattern) == pattern # <<>> /\ \A k \in 1..Len(pattern) : pattern[k] = 42
NoWildcard(pattern) == \A k \in 1..Len(pattern) : pattern[k] \notin {42, 63}

\* C1: wildcardMatch(text, pattern) returns true exactly when the whole text
\* matches the whole pattern under the reference semantics; the empty pattern
\* matches the empty text only, a pattern of '*' alone matches every text, and a
\* pattern without wildcards matches the text equal to it and no other (no
\* prefix, no substring).
C1_WildcardMatchIsReference ==
    (pc = "returned" /\ call.fn = "wildcardMatch") =>
        /\ ret.value = RefMatch(call.str, call.pattern)
        /\ call.pattern = <<>> => (ret.value <=> call.str = <<>>)
        /\ OnlyStars(call.pattern) => ret.value
        /\ NoWildcard(call.pattern) => (ret.value <=> call.str = call.pattern)

\* "a/a" against "a*": the '*' takes two characters, the separator among them.
C1_Witness ==
    /\ pc = "returned"
    /\ call.fn = "wildcardMatch"
    /\ call.str = <<97, 47, 97>>
    /\ call.pattern = <<97, 42>>
    /\ ret.value

Permuted(ps) ==
    {[k \in 1..Len(ps) |-> ps[s[k]]] : s \in Permutations(1..Len(ps))}

RECURSIVE Dedup(_)
\* ps with every repetition of an earlier element removed
Dedup(ps) ==
    IF ps = <<>> THEN <<>>
    ELSE LET front == Dedup(SubSeq(ps, 1, Len(ps) - 1))
             last == ps[Len(ps)]
         IN IF \E k \in 1..Len(front) : front[k] = last THEN front
            ELSE Append(front, last)

\* C2: matchesAnyPattern(name, patterns) is true iff wildcardMatch(name, p) is
\* true for some p of the list; it is false for the empty list, and every
\* permutation of the list and the list without its duplicates give the same
\* result.
C2_MatchesAnyIsExistential ==
    (pc = "returned" /\ call.fn = "matchesAnyPattern") =>
        /\ ret.value <=> \E k \in 1..Len(call.patterns) :
                            wildcardMatch(call.filename, call.patterns[k])
        /\ call.patterns = <<>> => ~ret.value
        /\ \A q \in Permuted(call.patterns) :
              matchesAnyPattern(call.filename, q) = ret.value
        /\ matchesAnyPattern(call.filename, Dedup(call.patterns)) = ret.value

\* Only the second pattern of the list matches the name.
C2_Witness ==
    /\ pc = "returned"
    /\ call.fn = "matchesAnyPattern"
    /\ Len(call.patterns) = 2
    /\ ~wildcardMatch(call.filename, call.patterns[1])
    /\ wildcardMatch(call.filename, call.patterns[2])
    /\ ret.value

-----------------------------------------------------------------------------
(* Properties of the classifier.                                           *)

\* C4: isTextFile says text for an openable file iff none of its first
\* min(length, 1024) bytes is in 0..8 or 14..31; later bytes do not count, the
\* empty file is text, and a file that cannot be opened is not text.
C4_TextIffNoControlByteInFirstChunk ==
    (pc = "returned" /\ call.fn = "isTextFile") =>
        /\ call.isOpen =>
             (ret.value <=>
                \A k \in 1..Len(call.data) :
                    k <= 1024 => call.data[k] \notin ((0..8) \cup (14..31)))
        /\ (call.isOpen /\ call.data = <<>>) => ret.value
        /\ ~call.isOpen => ~ret.value

\* A file of 1026 bytes with a NUL at offset 1024 and a high byte inside the
\* chunk's reach is text.
C4_Witness ==
    /\ pc = "returned"
    /\ call.fn = "isTextFile"
    /\ call.isOpen
    /\ Len(call.data) = 1025
    /\ call.data[1024] = 255
    /\ call.data[1025] = 0
    /\ ret.value

-----------------------------------------------------------------------------
(* Properties of the pattern list.                                         *)

\* The values of the -i / --ignore flags of a command line made of flags with
\* their values, in command-line order.
CliPatterns(argv) ==
    LET at == {k \in 1..Len(argv) : k % 2 = 1 /\ argv[k] \in {OPT_I, OPT_IGNORE}}
        nth[n \in 0..Len(argv)] ==
            IF n = 0 THEN 0 ELSE CHOOSE k \in at : k > nth[n - 1] /\ \A j \in at : j > nth[n - 1] => k <= j
    IN [n \in 1..Cardinality(at) |-> argv[nth[n] + 1]]

\* The lines of a text: the pieces between its newlines, a last piece without
\* a newline counting when it is not empty.
RECURSIVE LinesOf(_)
LinesOf(text) ==
    IF text = <<>> THEN <<>>
    ELSE LET ends == {k \in 1..Len(text) : text[k] = 10}
             e == IF ends = {} THEN Len(text) + 1
                  ELSE CHOOSE k \in ends : \A j \in ends : k <= j
         IN <<SubSeq(text, 1, e - 1)>> \o LinesOf(SubSeq(text, e + 1, Len(text)))

RECURSIVE EntriesOf(_)
\* One entry per line that is not empty and does not start with '#': the line,
\* less one leading '/'.
EntriesOf(lines) ==
    IF lines = <<>> THEN <<>>
    ELSE LET l == Head(lines)
         IN (IF l = <<>> \/ l[1] = 35 THEN <<>>
             ELSE IF l[1] = 47 THEN <<SubSeq(l, 2, Len(l))>>
             ELSE <<l>>)
            \o EntriesOf(Tail(lines))

\* What the .gitignore of the working directory gives when it opens.
GitignoreText ==
    IF files[".gitignore"].present /\ files[".gitignore"].opens > 0
    THEN files[".gitignore"].content ELSE <<>>

\* C3: the pattern list used for traversal is the CLI patterns in command-line
\* order followed by one entry per line of the scan root's .gitignore, in file
\* order, for the lines that are not empty and do not start with '#', each
\* verbatim but for one leading '/'; a .gitignore that is missing or does not
\* open adds nothing and raises no error.
C3_PatternListIsCliThenGitignore ==
    pc = "dump" =>
        /\ ignorePatterns = CliPatterns(args) \o EntriesOf(LinesOf(GitignoreText))
        /\ err = <<>>
        /\ exitCode = -1

\* "-i a" with the .gitignore "/#\n#\n": the list is "a", "#".
C3_Witness ==
    /\ pc = "dump"
    /\ args = <<OPT_I, <<97>>>>
    /\ files[".gitignore"].content = <<47, 35, 10, 35, 10>>
    /\ files[".gitignore"].opens > 0
    /\ ignorePatterns = <<<<97>>, <<35>>>>

-----------------------------------------------------------------------------
(* Properties of the traversal.                                            *)

Logged(op, n) == \E k \in 1..Len(log) : log[k] = Ev(op, n)
Count(op, n) == Cardinality({k \in 1..Len(log) : log[k] = Ev(op, n)})
Touched(n) == \E k \in 1..Len(log) : log[k].node = n

\* The text matches some pattern of the list, by the reference semantics.
ListMatches(text) ==
    \E k \in 1..Len(ignorePatterns) : RefMatch(text, ignorePatterns[k])

SubDirs == Dirs \ {"root"}

TextBytes(data) ==
    \A k \in 1..Len(data) : k <= 1024 => data[k] \notin ((0..8) \cup (14..31))

\* (a) no ancestor directory below the root matches by name, (b) neither the
\* relative path nor the bare name matches, (c) the classifier says text, (d)
\* the file opens for reading after the classifier's own open.
NotPruned(f) == \A D \in SubDirs : Below(f, D) => ~ListMatches(Name(D))
NotIgnored(f) == ~ListMatches(Rel(f, "root")) /\ ~ListMatches(Name(f))
ClassifiedText(f) == files[f].opens >= 1 /\ TextBytes(files[f].content)
OpensForReading(f) == files[f].opens >= 2
Emittable(f) ==
    Exists(f) /\ NotPruned(f) /\ NotIgnored(f) /\ ClassifiedText(f) /\ OpensForReading(f)

\* The length of the block of file f.
BlockLen(f) ==
    Len(OPEN_TAG) + Len(Rel(f, "root")) + Len(OPEN_TAG_END)
        + Len(files[f].content) + 1 + Len(CLOSE_TAG)

RECURSIVE SumBlockLen(_)
SumBlockLen(S) ==
    IF S = {} THEN 0
    ELSE LET f == CHOOSE x \in S : TRUE IN BlockLen(f) + SumBlockLen(S \ {f})

ReadOrder ==
    LET r == SelectSeq(log, LAMBDA e : e.op = "read")
    IN [k \in 1..Len(r) |-> r[k].node]

\* The files enumerated so far, in the order of the traversal.
EnumOrder ==
    LET r == SelectSeq(log, LAMBDA e : e.op = "enum")
    IN [k \in 1..Len(r) |-> r[k].node]

OpenLine(f) == OPEN_TAG \o Rel(f, "root") \o OPEN_TAG_END
Block(f) == OpenLine(f) \o files[f].content \o <<10>> \o CLOSE_TAG

\* What of the block of f has been written at the position pc.
Written(f, at) ==
    CASE at = "emit_open" -> <<>>
      [] at = "emit_content" -> OpenLine(f)
      [] at = "emit_close" -> OpenLine(f) \o files[f].content \o <<10>>
      [] OTHER -> Block(f)

RECURSIVE Blocks(_, _)
\* The blocks of the files fs, the last one as far as it is written.
Blocks(fs, at) ==
    IF fs = <<>> THEN <<>>
    ELSE IF Len(fs) = 1 THEN Written(fs[1], at)
    ELSE Block(fs[1]) \o Blocks(Tail(fs), at)

Emitting == {"emit_open", "emit_content", "emit_close"}

OutputIsBlocks ==
    /\ out = Blocks(ReadOrder, pc)
    /\ ReadOrder = SelectSeq(EnumOrder, LAMBDA f : Logged("read", f))
    /\ pc \in Emitting =>
          /\ ReadOrder # <<>>
          /\ cur = ReadOrder[Len(ReadOrder)]
          /\ content = files[cur].content

BlockIsFinished ==
    /\ pc = "emit_open" => (pc' = "emit_content" /\ cur' = cur /\ content' = content)
    /\ pc = "emit_content" => (pc' = "emit_close" /\ cur' = cur /\ content' = content)
    /\ pc = "emit_close" => (pc' = "iter" /\ cur' = cur)
    /\ pc \in Emitting => ~ \E k \in 1..Len(log') : k > Len(log) /\
                              log'[k].op \in {"enum", "testrel", "testname", "classify", "open", "read"}
    /\ pc \notin Emitting => out' = out

\* C7: in every state of a scan standard output is the concatenation, in
\* traversal order, of the blocks of the files read so far, each the opening tag
\* line, the content verbatim, a newline, the closing tag line and a blank line,
\* the last block as far as it is written.  The content is read before the
\* opening tag is written; once the tag is written the steps that follow write
\* the content and the closing tag before any other entry is examined; and no
\* other step writes to standard output.
C7_OutputIsBlocksInOrder == []OutputIsBlocks /\ [][BlockIsFinished]_vars

\* The second block is written up to its content, the first is complete.
C7_Witness ==
    /\ pc = "emit_close"
    /\ Len(ReadOrder) = 2
    /\ files[ReadOrder[1]].content # <<>>
    /\ Len(out) > BlockLen(ReadOrder[1])

-----------------------------------------------------------------------------
(* Properties of main.                                                     *)

ValueFlags == {<<45, 100>>, <<45, 45, 100, 105, 114>>,
               <<45, 105>>, <<45, 45, 105, 103, 110, 111, 114, 101>>}
HelpFlags == {<<45, 104>>, <<45, 45, 104, 101, 108, 112>>}

\* Parsing has reached, as its next argument, a flag that takes a value and is
\* the last argument.
MissingValue == pc = "parse" /\ i >= 1 /\ i = Len(args) /\ args[i] \in ValueFlags

\* C8: a -d, --dir, -i or --ignore that parsing reaches as the last argument is
\* a usage error: the step that handles it writes to standard error and exits
\* with code 1, leaving the scan root and the pattern list alone; no index at or
\* past argc is ever read, nothing is loaded or scanned before it and, the
\* program having exited, nothing after it.
C8_MissingValueIsUsageError ==
    /\ [][MissingValue =>
            /\ pc' = "exit"
            /\ exitCode' = 1
            /\ Len(err') > Len(err)
            /\ targetDir' = targetDir
            /\ ignorePatterns' = ignorePatterns
            /\ log' = log]_vars
    /\ [](\A k \in argvRead : k < Len(args) + 1)
    /\ [](MissingValue => log = <<>>)
    /\ [][pc # "exit"]_vars

\* "-i a -d": exit code 1, the pattern of -i kept, nothing scanned.
C8_Witness ==
    /\ pc = "exit"
    /\ exitCode = 1
    /\ args = <<OPT_I, <<97>>, OPT_D>>
    /\ ignorePatterns = <<<<97>>>>
    /\ i = 3
    /\ err # <<>>
    /\ log = <<>>

\* Every argument has been parsed, each a flag with its value.
ParsedAll == pc = "parse" /\ i > Len(args)

\* The scan root the command line asks for: the value of the last -d / --dir,
\* the working directory without one.
ScanRoot ==
    LET at == {k \in 1..Len(args) : k % 2 = 1 /\ args[k] \in {OPT_D, OPT_DIR}}
    IN IF at = {} THEN CwdPath
       ELSE args[(CHOOSE k \in at : \A j \in at : j <= k) + 1]

\* The paths that name a directory: the working directory and "d".
IsDirectoryPath(path) == path = CwdPath \/ path = <<100>>

NothingScanned ==
    /\ ~ \E k \in 1..Len(log) : log[k].op # "stat"
    /\ \A f \in FileNodes : opened[f] = 0

\* C9: once every argument is parsed, a scan root that is no directory makes
\* the program write to standard error and exit with code 1, with no .gitignore
\* looked for, nothing traversed and nothing on standard output; a scan root
\* that is a directory makes it load the ignore file, scan and exit with code 0.
C9_RootIsValidatedBeforeTheScan ==
    /\ [][ParsedAll =>
            IF IsDirectoryPath(ScanRoot)
            THEN pc' = "load" /\ exitCode' = -1 /\ err' = err
            ELSE /\ pc' = "exit"
                 /\ exitCode' = 1
                 /\ Len(err') > Len(err)
                 /\ out' = <<>>]_vars
    /\ []((pc = "exit" /\ i > Len(args) /\ exitCode = 1) => (NothingScanned /\ out = <<>>))
    /\ []((pc = "exit" /\ i > Len(args) /\ exitCode = 0) =>
            /\ IsDirectoryPath(ScanRoot)
            /\ Logged("exists", ".gitignore")
            /\ \A n \in Children(Resolve(ScanRoot)) : Logged("enum", n))
    /\ [](pc = "exit" /\ i > Len(args) => exitCode \in {0, 1})
    /\ (ParsedAll /\ IsDirectoryPath(ScanRoot)) ~> (pc = "exit" /\ exitCode = 0)
    /\ [][pc # "exit"]_vars

\* "-d d -d a": the last -d names a file, not a directory.
C9_Witness ==
    /\ pc = "exit"
    /\ exitCode = 1
    /\ args = <<OPT_D, <<100>>, OPT_D, <<97>>>>
    /\ i > Len(args)
    /\ err # <<>>
    /\ out = <<>>
    /\ NothingScanned

\* Parsing has reached -h or --help as its next argument.
HelpReached == pc = "parse" /\ i <= Len(args) /\ args[i] \in HelpFlags

\* C10: when parsing reaches -h or --help the program prints the usage text and
\* exits with code 0 in that step: no later argument is read, the scan root is
\* not validated, no .gitignore is loaded and nothing is scanned, before or
\* after.
C10_HelpExitsAtOnce ==
    /\ [][HelpReached =>
            /\ pc' = "exit"
            /\ exitCode' = 0
            /\ out' = out \o Usage(PROG)
            /\ err' = err
            /\ log' = log
            /\ \A k \in argvRead' : k <= i]_vars
    /\ [](HelpReached => (log = <<>> /\ out = <<>> /\ \A k \in argvRead : k < i))
    /\ []((pc = "exit" /\ i <= Len(args)) => (log = <<>> /\ \A f \in FileNodes : opened[f] = 0))
    /\ [][pc # "exit"]_vars

\* "-d -i --help a": the scan root "-i" does not exist and "a" is never read.
C10_Witness ==
    /\ pc = "exit"
    /\ exitCode = 0
    /\ args = <<OPT_D, OPT_I, OPT_HELP, <<97>>>>
    /\ targetDir = OPT_I
    /\ 4 \notin argvRead
    /\ out = Usage(PROG)
    /\ log = <<>>

====
